---- MODULE Spec2Model ----
(***************************************************************************)
(* Model of streamdeck-ui-md-bridge: the bridge between the streamdeck_ui   *)
(* button state and the MaterialDeck plugin (bridge.py), and the websocket  *)
(* session manager that serves the plugin (md_listener.py).                 *)
(*                                                                          *)
(* JSON text is represented by the value it serialises: json.dumps of a     *)
(* dict is the record, json.loads of a frame is the record it decodes to.   *)
(* A Python dict with string keys is a function on a set of strings.        *)
(* An optional value (a missing key, '' for "no command") is a sequence of  *)
(* length 0 or 1.                                                           *)
(***************************************************************************)
EXTENDS Integers, Sequences, FiniteSets, TLC

(* ------------------------------ bounds --------------------------------- *)

\* Pages of the deck are 0..MaxPage.
MaxPage == 1
\* The capacity of the outbound queue, for the 1024 of Queue(1024) in
\* _setup_listeners: a put on a queue that holds MaxQueue messages blocks.
MaxQueue == 3
\* Connections accepted in one behaviour: 1..MaxConns.
MaxConns == 2
\* Frames on the wire in one behaviour: those the plugin sends and the
\* heartbeats it is sent.
MaxFrames == 2
\* Operations of the configuration UI in one behaviour.
MaxEdits == 3
\* Pages the coordinate functions are applied to: 0..MaxCoordPage.
MaxCoordPage == 3

(* --------------------------- program constants ------------------------- *)

DECK_COLUMNS == 8
DECK_ROWS == 4
CONNECTED_PAYLOAD == [target |-> "MD", type |-> "connected", data |-> "SD"]
INITIALIZE_PAYLOAD == [source |-> "SD", type |-> "version", version |-> "1.4.2"]
HEARTBEAT == [T |-> "P"]
IMAGE_CACHE_PATH == "~/.stream-deck-ui-md-bridge/image_cache"
MATERIAL_FOUNDRY_IMAGE == "~/.stream-deck-ui-md-bridge/MaterialFoundry512x512.png"
MATERIAL_DECK_ACTIONS == {"", "macro", "soundboard"}
DeckId == "deck"

(* ------------------------------ domains -------------------------------- *)

Pages == 0..MaxPage
\* The buttons of a page that the model follows, in the order the page's
\* dict yields them.
ButtonSeq == <<3, 31>>
Buttons == {ButtonSeq[i] : i \in DOMAIN ButtonSeq}
Slots == Pages \X Buttons
Conns == 1..MaxConns
ImageIds == {"img1"}
Titles == {"Cast"}

EmptyDict == [k \in {} |-> 0]
\* dict update: g's items written over f's
Merge(f, g) == [k \in DOMAIN f \cup DOMAIN g |-> IF k \in DOMAIN g THEN g[k] ELSE f[k]]

\* button_state without the 'material_deck' key
NoBinding ==
    [present |-> FALSE, has_init |-> FALSE, action |-> "",
     has_settings |-> FALSE, action_settings |-> EmptyDict]
\* a button streamdeck_ui knows nothing about
BlankButton == [text |-> "", icon |-> "", command |-> <<>>, material_deck |-> NoBinding]

(* ------------------------ coordinate translation ----------------------- *)

\* A faulty variant: the page is taken per row of buttons, not per page.
C10_to_page_columns_only(context) == context \div DECK_COLUMNS

_to_context(button_index, page) == button_index + (page * DECK_COLUMNS * DECK_ROWS)

_to_button_index(context, page) == context - (page * DECK_COLUMNS * DECK_ROWS)

\* int(context / (DECK_ROWS * DECK_COLUMNS)): true division, then truncation
\* towards zero.
_to_page(context) ==
    IF context >= 0
    THEN context \div (DECK_ROWS * DECK_COLUMNS)
    ELSE -((-context) \div (DECK_ROWS * DECK_COLUMNS))

\* {'column': button_index % DECK_COLUMNS, 'row': math.floor(button_index / DECK_COLUMNS)}
Coordinates(button_index) ==
    [column |-> button_index % DECK_COLUMNS, row |-> button_index \div DECK_COLUMNS]

(* ----------------------- payloads and settings ------------------------- *)

\* init_data as md_action_changed seeds it: payload.settings of a fresh binding
INIT_DATA_SETTINGS == [displayName |-> TRUE, displayIcon |-> TRUE]

\* What _get_settings_for_action writes into an empty action_settings dict.
DefaultSettings(action, button_index, page) ==
    IF action = "soundboard"
    THEN [soundNr |-> _to_context(button_index + 1, page)]
    ELSE IF action = "macro"
         THEN [macroMode |-> "macroBoard",
               macroNumber |-> _to_context(button_index + 1, page)]
         ELSE EmptyDict

\* _get_settings_for_action, as the 'material_deck' value it leaves behind:
\* both setdefault calls create what is missing, and an EMPTY dict (not only a
\* missing one) is filled with the action's defaults.  The dict returned to the
\* caller is the stored one: .action_settings of the result.
_get_settings_for_action(md, action, button_index, page) ==
    LET cur == IF md.present /\ md.has_settings THEN md.action_settings ELSE EmptyDict
    IN  [md EXCEPT !.present = TRUE, !.has_settings = TRUE,
                   !.action_settings =
                       IF DOMAIN cur = {}
                       THEN DefaultSettings(action, button_index, page)
                       ELSE cur]

\* A faulty variant: the context ignores the page.
C6_will_display_payload_no_page(md, button_index, page, event) ==
    LET md2 == _get_settings_for_action(md, md.action, button_index, page)
    IN  [md  |-> md2,
         msg |-> [event |-> event,
                  action |-> md.action,
                  context |-> button_index,
                  size |-> [columns |-> DECK_COLUMNS, rows |-> DECK_ROWS],
                  payload |-> [settings |-> Merge(INIT_DATA_SETTINGS, md2.action_settings),
                               coordinates |-> Coordinates(button_index)],
                  deviceIteration |-> page,
                  device |-> DeckId]]

\* _create_will_display_payload(deck_info, button_index, page, event) for a
\* deck_info that has 'init_data': the payload (a deep copy of init_data with
\* the resolved settings merged in) and the deck_info left behind.
_create_will_display_payload(md, button_index, page, event) ==
    LET md2 == _get_settings_for_action(md, md.action, button_index, page)
    IN  [md  |-> md2,
         msg |-> [event |-> event,
                  action |-> md.action,
                  context |-> _to_context(button_index, page),
                  size |-> [columns |-> DECK_COLUMNS, rows |-> DECK_ROWS],
                  payload |-> [settings |-> Merge(INIT_DATA_SETTINGS, md2.action_settings),
                               coordinates |-> Coordinates(button_index)],
                  deviceIteration |-> page,
                  device |-> DeckId]]

\* _create_command_payload(action, event, button_index, page) and the
\* 'material_deck' value its call of _get_settings_for_action leaves behind.
_create_command_payload(md, action, event, button_index, page) ==
    LET md2 == _get_settings_for_action(md, action, button_index, page)
    IN  [md  |-> md2,
         msg |-> [action |-> action,
                  event |-> event,
                  context |-> _to_context(button_index, page),
                  payload |-> [coordinates |-> Coordinates(button_index),
                               settings |-> md2.action_settings,
                               deviceIteration |-> page,
                               device |-> DeckId]]]

\* The synthetic willDisappear of md_action_changed(button_index, '').
WillDisappearOfUnbind(previous_action, button_index, page) ==
    [event |-> "willDisappear",
     action |-> previous_action,
     payload |-> [coordinates |-> Coordinates(button_index)],
     context |-> _to_context(button_index, page),
     device |-> DeckId]

(* ------------------------- button state updates ------------------------ *)

\* _reset_button(button_index, image_path, page)
_reset_button(bs, button_index, image_path, page) ==
    [bs EXCEPT ![<<page, button_index>>] =
        [@ EXCEPT !.text = "", !.command = <<>>, !.icon = image_path]]

\* A faulty variant: every button is reset, bound or not.
C19_disconnect_resets_all(bs) ==
    [s \in DOMAIN bs |->
        [bs[s] EXCEPT !.text = "", !.command = <<>>, !.icon = MATERIAL_FOUNDRY_IMAGE]]

\* disconnect(): every button of every page that has 'material_deck' is reset
\* to the placeholder image.
disconnect(bs) ==
    [s \in DOMAIN bs |->
        IF bs[s].material_deck.present
        THEN [bs[s] EXCEPT !.text = "", !.command = <<>>, !.icon = MATERIAL_FOUNDRY_IMAGE]
        ELSE bs[s]]

\* get_md_action(button_index) on the page shown (initialised bridge)
get_md_action(bs, page, button_index) ==
    LET md == bs[<<page, button_index>>].material_deck
    IN  IF md.present /\ md.has_init THEN md.action ELSE ""

\* A faulty variant: clearing the action keeps the binding record.
C5_md_action_changed_keeps_binding(bs, page, button_index, action) ==
    LET slot == bs[<<page, button_index>>]
        md0  == slot.material_deck
    IN  IF action # ""
        THEN LET md1  == [md0 EXCEPT !.present = TRUE, !.has_init = TRUE, !.action = action]
                 cmd  == _create_command_payload(md1, action, "keyDown", button_index, page)
                 disp == _create_will_display_payload(cmd.md, button_index, page, "willAppear")
             IN  [bs  |-> [bs EXCEPT ![<<page, button_index>>] =
                              [slot EXCEPT !.command = <<cmd.msg>>, !.material_deck = disp.md]],
                  out |-> <<disp.msg>>]
        ELSE IF md0.present
             THEN [bs  |-> _reset_button(bs, button_index, "", page),
                   out |-> <<WillDisappearOfUnbind(md0.action, button_index, page)>>]
             ELSE [bs |-> bs, out |-> <<>>]

\* md_action_changed(button_index, action) on the page shown: the button state
\* it leaves and the messages it writes to the output queue.
md_action_changed(bs, page, button_index, action) ==
    LET slot == bs[<<page, button_index>>]
        md0  == slot.material_deck
    IN  IF action # ""
        THEN LET md1  == [md0 EXCEPT !.present = TRUE, !.has_init = TRUE, !.action = action]
                 cmd  == _create_command_payload(md1, action, "keyDown", button_index, page)
                 disp == _create_will_display_payload(cmd.md, button_index, page, "willAppear")
             IN  [bs  |-> [bs EXCEPT ![<<page, button_index>>] =
                              [slot EXCEPT !.command = <<cmd.msg>>, !.material_deck = disp.md]],
                  out |-> <<disp.msg>>]
        ELSE IF md0.present
             THEN [bs  |-> _reset_button(
                               [bs EXCEPT ![<<page, button_index>>].material_deck = NoBinding],
                               button_index, "", page),
                   out |-> <<WillDisappearOfUnbind(md0.action, button_index, page)>>]
             ELSE [bs |-> bs, out |-> <<>>]

\* json.loads of the texts the data box is given; <<>> when it raises.
JsonLoads(text) ==
    IF text = "{}" THEN <<EmptyDict>>
    ELSE IF text = "{\"soundNr\": 7}" THEN <<[soundNr |-> 7]>>
    ELSE <<>>

MdDataTexts == {"{}", "{\"soundNr\": 7}", "{oops"}

\* md_data_changed(button_index, text) on the page shown.  The settings are
\* stored before the payload is built; building it raises KeyError when the
\* record has no 'init_data', and then nothing is written to the queue.
md_data_changed(bs, page, button_index, text) ==
    LET slot == bs[<<page, button_index>>]
        md0  == slot.material_deck
    IN  IF JsonLoads(text) = <<>>
        THEN [bs |-> bs, out |-> <<>>]
        ELSE LET md1 == [md0 EXCEPT !.present = TRUE, !.has_settings = TRUE,
                                    !.action_settings = JsonLoads(text)[1]]
             IN  IF md1.has_init
                 THEN LET disp == _create_will_display_payload(md1, button_index, page, "willAppear")
                      IN  [bs  |-> [bs EXCEPT ![<<page, button_index>>].material_deck = disp.md],
                           out |-> <<disp.msg>>]
                 ELSE [bs  |-> [bs EXCEPT ![<<page, button_index>>].material_deck = md1],
                       out |-> <<>>]

\* get_md_data(button_index): both setdefault calls create what is missing.
get_md_data(bs, page, button_index) ==
    [bs EXCEPT ![<<page, button_index>>].material_deck =
        [@ EXCEPT !.present = TRUE, !.has_settings = TRUE]]

\* key_up_callback(deck_id, key, state) on the page shown: raises KeyError for
\* a record without 'init_data'.
key_up_callback(bs, page, key) ==
    LET md0 == bs[<<page, key>>].material_deck
    IN  IF md0.present /\ md0.has_init
        THEN LET cmd == _create_command_payload(md0, md0.action, "keyUp", key, page)
             IN  [bs  |-> [bs EXCEPT ![<<page, key>>].material_deck = cmd.md],
                  out |-> <<cmd.msg>>]
        ELSE [bs |-> bs, out |-> <<>>]

RECURSIVE load_md_buttons_from(_, _, _)
\* the loop of load_md_buttons from the i-th button of the page on
load_md_buttons_from(bs, page, i) ==
    IF i > Len(ButtonSeq)
    THEN [bs |-> bs, out |-> <<>>]
    ELSE LET b   == ButtonSeq[i]
             md0 == bs[<<page, b>>].material_deck
         IN  IF md0.present /\ md0.has_init
             THEN LET disp == _create_will_display_payload(md0, b, page, "willAppear")
                      cmd  == _create_command_payload(disp.md, disp.msg.action, "keyDown", b, page)
                      bs2  == [bs EXCEPT ![<<page, b>>] =
                                  [@ EXCEPT !.command = <<cmd.msg>>, !.material_deck = cmd.md]]
                      rest == load_md_buttons_from(bs2, page, i + 1)
                  IN  [bs |-> rest.bs, out |-> <<disp.msg>> \o rest.out]
             ELSE load_md_buttons_from(bs, page, i + 1)

\* load_md_buttons(page)
load_md_buttons(bs, page) == load_md_buttons_from(bs, page, 1)

RECURSIVE load_md_buttons_room(_, _, _, _)
\* the loop of load_md_buttons from the i-th button of the page on, while the
\* queue has room for `room` more messages: Queue.put waits when the queue is
\* full, so the loop stops inside the put of the first message that does not
\* fit, after the command of its button has been set.
load_md_buttons_room(bs, page, i, room) ==
    IF i > Len(ButtonSeq)
    THEN [bs |-> bs, out |-> <<>>, blocked |-> FALSE]
    ELSE LET b   == ButtonSeq[i]
             md0 == bs[<<page, b>>].material_deck
         IN  IF md0.present /\ md0.has_init
             THEN LET disp == _create_will_display_payload(md0, b, page, "willAppear")
                      cmd  == _create_command_payload(disp.md, disp.msg.action, "keyDown", b, page)
                      bs2  == [bs EXCEPT ![<<page, b>>] =
                                  [@ EXCEPT !.command = <<cmd.msg>>, !.material_deck = cmd.md]]
                  IN  IF room = 0
                      THEN [bs |-> bs2, out |-> <<>>, blocked |-> TRUE]
                      ELSE LET rest == load_md_buttons_room(bs2, page, i + 1, room - 1)
                           IN  [bs |-> rest.bs, out |-> <<disp.msg>> \o rest.out,
                                blocked |-> rest.blocked]
             ELSE load_md_buttons_room(bs, page, i + 1, room)

RECURSIVE unload_md_buttons_from(_, _, _)
\* the loop of _unload_md_buttons from the i-th button of the page on
unload_md_buttons_from(bs, page, i) ==
    IF i > Len(ButtonSeq)
    THEN [bs |-> bs, out |-> <<>>]
    ELSE LET b   == ButtonSeq[i]
             md0 == bs[<<page, b>>].material_deck
         IN  IF md0.present /\ md0.has_init
             THEN LET disp == _create_will_display_payload(md0, b, page, "willDisappear")
                      bs2  == _reset_button(
                                  [bs EXCEPT ![<<page, b>>].material_deck = disp.md],
                                  b, "", page)
                      rest == unload_md_buttons_from(bs2, page, i + 1)
                  IN  [bs |-> rest.bs, out |-> <<disp.msg>> \o rest.out]
             ELSE unload_md_buttons_from(bs, page, i + 1)

\* _unload_md_buttons(page)
_unload_md_buttons(bs, page) == unload_md_buttons_from(bs, page, 1)

\* A faulty variant: the new page is loaded before the old one is unloaded.
C21_on_page_changed_loads_first(bs, old_page, new_page) ==
    LET ld == load_md_buttons(bs, new_page)
        un == _unload_md_buttons(ld.bs, old_page)
    IN  [bs |-> un.bs, out |-> ld.out \o un.out]

\* _on_page_changed(old_page, new_page)
_on_page_changed(bs, old_page, new_page) ==
    LET un == _unload_md_buttons(bs, old_page)
        ld == load_md_buttons(un.bs, new_page)
    IN  [bs |-> ld.bs, out |-> un.out \o ld.out]

(* --------------------- messages from the plugin ------------------------ *)

\* A decoded frame; "" stands for a key the frame does not have.
Msg(target, type, event, context, title, id) ==
    [target |-> target, type |-> type, event |-> event, context |-> context,
     payload |-> [title |-> title, id |-> id]]
NoMsg == Msg("", "", "", 0, "", "")

Contexts == {_to_context(s[2], s[1]) : s \in Slots}

InboundMessages ==
    {Msg("server", "", "", 0, "", ""),
     Msg("SD", "init", "", 0, "", ""),
     Msg("SD", "", "keyDown", 0, "", ""),
     Msg("MD", "init", "", 0, "", "")}
    \cup {Msg("server", "", "setTitle", 3, title, "") : title \in Titles}
    \cup {Msg("SD", "init", "setTitle", 3, title, "") : title \in Titles}
    \cup {Msg("MD", "", "setTitle", 3, title, "") : title \in Titles}
    \cup {Msg("SD", "", "setTitle", c, title, "") : c \in Contexts, title \in Titles}
    \cup {Msg("SD", "", e, 3, "", id) :
            e \in {"setImage", "setBufferImage"}, id \in ImageIds}

\* The frames of a plugin that only opens its session: the two handshakes and
\* one title.
SessionMessages ==
    {Msg("server", "", "", 0, "", ""),
     Msg("SD", "init", "", 0, "", ""),
     Msg("SD", "", "setTitle", 3, "Cast", "")}

\* The image frames of the plugin, for every button the model follows.
ImageMessages ==
    {Msg("SD", "", e, c, "", id) :
        e \in {"setImage", "setBufferImage"}, c \in Contexts, id \in ImageIds}

\* What urlopen / response.read() do for a setImage that has to fetch.
FetchOutcomes == {"ok", "urlopen_raises", "read_raises"}

\* the button a context resolves to in the _handle_* functions
SlotOf(context) ==
    LET page == _to_page(context)
    IN  <<page, _to_button_index(context, page)>>

\* _get_path_from_image_id(image_id)
_get_path_from_image_id(image_id) == IMAGE_CACHE_PATH \o "/" \o image_id

\* A faulty variant: the title is written to the button of the same index on
\* the page shown first.
C8_handle_set_tile_page0(bs, data) ==
    LET s     == <<0, SlotOf(data.context)[2]>>
        title == data.payload.title
    IN  IF s \in DOMAIN bs /\ title # bs[s].text
        THEN [bs EXCEPT ![s].text = title]
        ELSE bs

\* _handle_set_tile(data)
_handle_set_tile(bs, data) ==
    LET s     == SlotOf(data.context)
        title == data.payload.title
    IN  IF s \in DOMAIN bs /\ title # bs[s].text
        THEN [bs EXCEPT ![s].text = title]
        ELSE bs

\* A faulty variant: the icon is set whenever it differs, whether or not a
\* cache file exists.
C22_set_buffer_image_without_exists(bs, cache, data) ==
    LET s          == SlotOf(data.context)
        cache_path == _get_path_from_image_id(data.payload.id)
    IN  IF s \in DOMAIN bs /\ cache_path # bs[s].icon
        THEN [bs EXCEPT ![s].icon = cache_path]
        ELSE bs

\* _handle_set_buffer_image(data)
_handle_set_buffer_image(bs, cache, data) ==
    LET s          == SlotOf(data.context)
        cache_path == _get_path_from_image_id(data.payload.id)
    IN  IF s \in DOMAIN bs /\ cache_path # bs[s].icon /\ cache[data.payload.id] # "absent"
        THEN [bs EXCEPT ![s].icon = cache_path]
        ELSE bs

\* A faulty variant: the image is fetched whenever the icon differs, whether or
\* not the cache file exists.
C11_handle_set_image_always_fetches(bs, cache, data, fetch) ==
    LET s          == SlotOf(data.context)
        id         == data.payload.id
        cache_path == _get_path_from_image_id(id)
        set_icon   == IF s \in DOMAIN bs THEN [bs EXCEPT ![s].icon = cache_path] ELSE bs
    IN  IF s \in DOMAIN bs /\ cache_path # bs[s].icon
        THEN IF fetch = "ok"
             THEN [bs |-> set_icon, cache |-> [cache EXCEPT ![id] = "complete"], raised |-> FALSE]
             ELSE IF fetch = "urlopen_raises"
                  THEN [bs |-> bs, cache |-> cache, raised |-> TRUE]
                  ELSE [bs |-> bs, cache |-> [cache EXCEPT ![id] = "partial"], raised |-> TRUE]
        ELSE [bs |-> set_icon, cache |-> cache, raised |-> FALSE]

\* _handle_set_image(data): open(cache_path, 'wb') creates the file before
\* response.read() is called, so a read that raises leaves an empty file.
_handle_set_image(bs, cache, data, fetch) ==
    LET s          == SlotOf(data.context)
        id         == data.payload.id
        cache_path == _get_path_from_image_id(id)
        set_icon   == IF s \in DOMAIN bs THEN [bs EXCEPT ![s].icon = cache_path] ELSE bs
    IN  IF s \in DOMAIN bs /\ cache_path # bs[s].icon /\ cache[id] = "absent"
        THEN IF fetch = "ok"
             THEN [bs |-> set_icon, cache |-> [cache EXCEPT ![id] = "complete"], raised |-> FALSE]
             ELSE IF fetch = "urlopen_raises"
                  THEN [bs |-> bs, cache |-> cache, raised |-> TRUE]
                  ELSE [bs |-> bs, cache |-> [cache EXCEPT ![id] = "partial"], raised |-> TRUE]
        ELSE [bs |-> set_icon, cache |-> cache, raised |-> FALSE]

\* A faulty variant: every frame addressed to "SD" is answered with the version.
C9_analyze_always_version(bs, cache, data, fetch) ==
    IF data.target = "server"
    THEN [bs |-> bs, cache |-> cache, reply |-> <<CONNECTED_PAYLOAD>>, raised |-> FALSE]
    ELSE IF data.target = "SD"
         THEN [bs |-> bs, cache |-> cache, reply |-> <<INITIALIZE_PAYLOAD>>, raised |-> FALSE]
         ELSE [bs |-> bs, cache |-> cache, reply |-> <<>>, raised |-> FALSE]

\* analyze_md_message(message) for a frame that decodes: the button state and
\* the image cache it leaves, its return value ('' is <<>>) and whether it
\* raised instead of returning.
analyze_md_message(bs, cache, data, fetch) ==
    IF data.target = "server"
    THEN [bs |-> bs, cache |-> cache, reply |-> <<CONNECTED_PAYLOAD>>, raised |-> FALSE]
    ELSE IF data.target = "SD"
         THEN IF data.type = "init"
              THEN [bs |-> bs, cache |-> cache, reply |-> <<INITIALIZE_PAYLOAD>>, raised |-> FALSE]
              ELSE IF data.event = "setTitle"
                   THEN [bs |-> _handle_set_tile(bs, data), cache |-> cache,
                         reply |-> <<>>, raised |-> FALSE]
                   ELSE IF data.event = "setImage"
                        THEN LET r == _handle_set_image(bs, cache, data, fetch)
                             IN  [bs |-> r.bs, cache |-> r.cache, reply |-> <<>>,
                                  raised |-> r.raised]
                        ELSE IF data.event = "setBufferImage"
                             THEN [bs |-> _handle_set_buffer_image(bs, cache, data),
                                   cache |-> cache, reply |-> <<>>, raised |-> FALSE]
                             ELSE [bs |-> bs, cache |-> cache, reply |-> <<>>, raised |-> FALSE]
         ELSE [bs |-> bs, cache |-> cache, reply |-> <<>>, raised |-> FALSE]

(* ------------------------------- state --------------------------------- *)

VARIABLES
    initialized,       \* bridge._initialized (and _deck_id chosen)
    cur_page,          \* deck_api.get_page(_deck_id)
    button_state,      \* deck_api.state[_deck_id]['buttons']: [Slots -> button]
    output_queue,      \* the Queue shared by bridge, deck listener and session
    image_cache,       \* the file of each image id: absent, complete or partial
    edits,             \* calls of the bridge made by the configuration UI so far
    server,            \* md_listener._server: unset, serving, closing
    stop_event,        \* md_listener._stop_event
    disconnect_timer,  \* md_listener._disconnect_timer: none (None), alive, dead
    handler,           \* _listener per connection: none, gather, returned, raised
    listen,            \* the _listen_to_socket task: none, start, recv, returned, raised, closed
    sender,            \* the _send_messages task: none, start, returned, raised
    sent,              \* the frames written to each connection
    frames,            \* frames on the wire so far
    lastOp,            \* the step taken last
    coord,             \* arguments and results of the coordinate functions
    deck,              \* the device listener: its stop event, position, pipe and handle
    timers             \* threading.Timer objects: those pending, and how many have fired

bridge_vars == <<initialized, cur_page, button_state, output_queue, image_cache, edits>>
session_vars == <<server, stop_event, disconnect_timer, handler, listen, sender, sent, frames>>
vars == <<bridge_vars, session_vars, lastOp, coord, deck, timers>>

Op(name, c, page, button, arg, pre, msg) ==
    [op |-> name, conn |-> c, page |-> page, button |-> button, arg |-> arg,
     pre |-> pre, msg |-> msg]

\* how a button is bound: unbound (no 'material_deck'), record (no
\* 'init_data'), or its action
BindingOf(button) ==
    IF ~button.material_deck.present THEN "unbound"
    ELSE IF ~button.material_deck.has_init THEN "record"
    ELSE button.material_deck.action

\* A binding as export_config has persisted it after md_action_changed.
PersistedBinding(action, button_index, page) ==
    md_action_changed([s \in Slots |-> BlankButton], page, button_index, action)
        .bs[<<page, button_index>>]

\* The configurations the deck starts from: nothing bound, or bindings saved
\* by an earlier run (two on the first page, one on the last).
PersistedConfigs ==
    {[s \in Slots |->
        IF s \in bound
        THEN PersistedBinding(IF s[2] = 3 THEN "macro" ELSE "soundboard", s[2], s[1])
        ELSE BlankButton] : bound \in {{}, {<<0, 3>>, <<0, 31>>, <<MaxPage, 3>>}}}

NoCoord == [button_index |-> 0, page |-> 0, context |-> <<>>, back |-> <<>>]

\* deck_listener before start() is called: _stop_event clear, no pipe made, no
\* handle open, no line read.
DeckIdle == [stop |-> FALSE, pc |-> "idle", pipe |-> FALSE, fifo |-> FALSE,
             buf |-> <<>>, line |-> <<>>]

\* no Timer has been created
NoTimers == [pending |-> 0, fired |-> 0]

InitCommon ==
    /\ initialized = FALSE
    /\ cur_page = 0
    /\ output_queue = <<>>
    /\ image_cache = [id \in ImageIds |-> "absent"]
    /\ edits = 0
    /\ server = "unset"
    /\ stop_event = FALSE
    /\ disconnect_timer = "none"
    /\ handler = [c \in Conns |-> "none"]
    /\ listen = [c \in Conns |-> "none"]
    /\ sender = [c \in Conns |-> "none"]
    /\ sent = [c \in Conns |-> <<>>]
    /\ frames = 0
    /\ lastOp = Op("start", 0, 0, 0, "", "", NoMsg)
    /\ deck = DeckIdle
    /\ timers = NoTimers

Init ==
    /\ InitCommon
    /\ button_state \in PersistedConfigs
    /\ coord = NoCoord

(* -------------------------- bridge operations -------------------------- *)

\* init(bridge_file, output_queue, ui)
BridgeInit ==
    /\ ~initialized
    /\ initialized' = TRUE
    /\ lastOp' = Op("init", 0, cur_page, 0, "", "", NoMsg)
    /\ UNCHANGED <<cur_page, button_state, output_queue, image_cache, edits,
                   session_vars, coord, deck, timers>>

\* _write_message for every message of out, in order
WriteMessages(out) ==
    /\ Len(output_queue) + Len(out) <= MaxQueue
    /\ output_queue' = output_queue \o out

\* A call of the configuration UI into the bridge; r is what the wrapped
\* function does, and _init_required skips it until init has finished.
UiCall(name, button_index, arg, r) ==
    /\ edits < MaxEdits
    /\ edits' = edits + 1
    /\ lastOp' = Op(name, 0, cur_page, button_index, arg,
                    BindingOf(button_state[<<cur_page, button_index>>]), NoMsg)
    /\ IF initialized
       THEN /\ button_state' = r.bs
            /\ WriteMessages(r.out)
       ELSE UNCHANGED <<button_state, output_queue>>
    /\ UNCHANGED <<initialized, cur_page, image_cache, session_vars, coord, deck, timers>>

MdActionChanged(button_index, action) ==
    UiCall("md_action_changed", button_index, action,
           md_action_changed(button_state, cur_page, button_index, action))

MdDataChanged(button_index, text) ==
    UiCall("md_data_changed", button_index, text,
           md_data_changed(button_state, cur_page, button_index, text))

GetMdData(button_index) ==
    UiCall("get_md_data", button_index, "",
           [bs |-> get_md_data(button_state, cur_page, button_index), out |-> <<>>])

KeyUp(key) ==
    UiCall("key_up_callback", key, "", key_up_callback(button_state, cur_page, key))

\* _set_page_override(deck_id, page)
SetPage(page) ==
    /\ edits < MaxEdits
    /\ edits' = edits + 1
    /\ cur_page' = page
    /\ lastOp' = Op("set_page", 0, page, 0, "", "", NoMsg)
    /\ IF initialized
       THEN LET r == _on_page_changed(button_state, cur_page, page)
            IN  /\ button_state' = r.bs
                /\ WriteMessages(r.out)
       ELSE UNCHANGED <<button_state, output_queue>>
    /\ UNCHANGED <<initialized, image_cache, session_vars, coord, deck, timers>>

NextBridge ==
    \/ BridgeInit
    \/ \E b \in Buttons, a \in MATERIAL_DECK_ACTIONS : MdActionChanged(b, a)
    \/ \E b \in Buttons, text \in MdDataTexts : MdDataChanged(b, text)
    \/ \E b \in Buttons : GetMdData(b)
    \/ \E b \in Buttons : KeyUp(b)
    \/ \E p \in Pages : SetPage(p)

(* ------------------------- the plugin session -------------------------- *)

\* the connection is being served: its handler has not finished
Serving(c) == handler[c] = "gather"

\* the socket can still carry frames: _listen_to_socket waits in recv
ConnOpen(c) == listen[c] = "recv"

\* gather has scheduled the two tasks of a connection and the event loop has
\* not yet run both: they are the next callbacks it runs, so until then no
\* other coroutine of the loop takes a step (a signal handler and the other
\* threads still can).
LoopBusy == \E c \in Conns : listen[c] = "start" \/ sender[c] = "start"

\* "while not _stop_event.is_set()" of _listen_to_socket
ListenLoop == IF stop_event THEN "returned" ELSE "recv"

\* the lines "if _disconnect_timer and _disconnect_timer.is_alive(): cancel"
CancelTimer(timer) == IF timer = "alive" THEN "none" ELSE timer

\* A faulty variant: a connection leaves a running timer alone.
C4_connect_timer_kept(timer) == timer

\* the timer after the first lines of _listener
TimerAfterConnect(timer) == CancelTimer(timer)

\* What asyncio.gather hands to _listener when a task ends: the first exception
\* as soon as it is raised, the return once both tasks have returned.  Only
\* ConnectionClosed is caught, and catching it restarts the timer.
\*   how: "returned", "raised" (not ConnectionClosed), "closed" (ConnectionClosed)
HandlerAfter(c, how, other) ==
    IF handler[c] # "gather" THEN handler[c]
    ELSE IF how = "closed" THEN "returned"
    ELSE IF how = "raised" THEN "raised"
    ELSE IF other = "returned" THEN "returned"
    ELSE "gather"

TimerAfter(c, how) ==
    IF handler[c] = "gather" /\ how = "closed" THEN "alive" ELSE disconnect_timer

\* The Timer objects behind _disconnect_timer.  cancel() on the timer the
\* variable names takes it out of the pending ones; Timer(...).start() adds one.
TimersAfterCancel(timer, t) ==
    IF timer = "alive" THEN [t EXCEPT !.pending = @ - 1] ELSE t

TimersAfterStart(t) == [t EXCEPT !.pending = @ + 1]

\* the timers after "except ConnectionClosed" of _listener, if it is reached
TimersAfter(c, how) ==
    IF handler[c] = "gather" /\ how = "closed"
    THEN TimersAfterStart(TimersAfterCancel(disconnect_timer, timers))
    ELSE timers

\* start(port): websockets.serve has returned and _server is assigned
ServerStart ==
    /\ server = "unset"
    /\ server' = "serving"
    /\ lastOp' = Op("serve", 0, cur_page, 0, "", "", NoMsg)
    /\ UNCHANGED <<bridge_vars, stop_event, disconnect_timer, handler, listen, sender,
                   sent, frames, coord, deck, timers>>

\* _listener up to asyncio.gather: the server hands it connection c.  Both
\* tasks exist; neither has run.
Connect(c) ==
    /\ server \in {"serving", "closing"}
    /\ ~LoopBusy
    /\ handler[c] = "none"
    /\ \A d \in Conns : d < c => handler[d] # "none"
    /\ disconnect_timer' = TimerAfterConnect(disconnect_timer)
    /\ LET r == IF initialized
                THEN load_md_buttons(button_state, cur_page)
                ELSE [bs |-> button_state, out |-> <<>>]
       IN  /\ button_state' = r.bs
           /\ WriteMessages(r.out)
    /\ handler' = [handler EXCEPT ![c] = "gather"]
    /\ listen' = [listen EXCEPT ![c] = "start"]
    /\ sender' = [sender EXCEPT ![c] = "start"]
    /\ timers' = [TimersAfterCancel(disconnect_timer, timers) EXCEPT !.fired = 0]
    /\ lastOp' = Op("connect", c, cur_page, 0, disconnect_timer, "", NoMsg)
    /\ UNCHANGED <<initialized, cur_page, image_cache, edits, server, stop_event, sent,
                   frames, coord, deck>>

\* the event-loop thread waits inside Queue.put, called by load_md_buttons in
\* the handler of a connection
LoopBlocked == \E c \in Conns : handler[c] = "put"

\* _listener up to asyncio.gather, with the puts of load_md_buttons taken one
\* by one: when the queue fills up during the replay the handler stays inside
\* put, on the event-loop thread, and gather is not reached.
ConnectBlocking(c) ==
    /\ server \in {"serving", "closing"}
    /\ ~LoopBusy
    /\ ~LoopBlocked
    /\ handler[c] = "none"
    /\ \A d \in Conns : d < c => handler[d] # "none"
    /\ disconnect_timer' = TimerAfterConnect(disconnect_timer)
    /\ LET r == IF initialized
                THEN load_md_buttons_room(button_state, cur_page, 1,
                                          MaxQueue - Len(output_queue))
                ELSE [bs |-> button_state, out |-> <<>>, blocked |-> FALSE]
       IN  /\ button_state' = r.bs
           /\ output_queue' = output_queue \o r.out
           /\ handler' = [handler EXCEPT ![c] = IF r.blocked THEN "put" ELSE "gather"]
           /\ listen' = [listen EXCEPT ![c] = IF r.blocked THEN "none" ELSE "start"]
           /\ sender' = [sender EXCEPT ![c] = IF r.blocked THEN "none" ELSE "start"]
    /\ timers' = [TimersAfterCancel(disconnect_timer, timers) EXCEPT !.fired = 0]
    /\ lastOp' = Op("connect", c, cur_page, 0, disconnect_timer, "", NoMsg)
    /\ UNCHANGED <<initialized, cur_page, image_cache, edits, server, stop_event, sent,
                   frames, coord, deck>>

\* _listen_to_socket up to its first recv
ListenStart(c) ==
    /\ listen[c] = "start"
    /\ listen' = [listen EXCEPT ![c] = ListenLoop]
    /\ handler' = [handler EXCEPT ![c] = HandlerAfter(c, ListenLoop, sender[c])]
    /\ lastOp' = Op("listen", c, cur_page, 0, "", "", NoMsg)
    /\ UNCHANGED <<bridge_vars, server, stop_event, disconnect_timer, sender, sent,
                   frames, coord, deck, timers>>

\* _send_messages, which the event loop runs right after the first step of
\* _listen_to_socket.  With the stop event set it returns.  Otherwise
\* bridge.next_message() is called: a plain function that takes the head of the
\* queue (or returns None); awaiting its result raises TypeError, so the task
\* ends, the message taken is never sent, and gather passes the TypeError to
\* _listener, which does not catch it.
SendStep(c) ==
    /\ sender[c] = "start"
    /\ listen[c] # "start"
    /\ IF stop_event
       THEN /\ sender' = [sender EXCEPT ![c] = "returned"]
            /\ handler' = [handler EXCEPT ![c] = HandlerAfter(c, "returned", listen[c])]
            /\ UNCHANGED output_queue
       ELSE /\ sender' = [sender EXCEPT ![c] = "raised"]
            /\ handler' = [handler EXCEPT ![c] = HandlerAfter(c, "raised", listen[c])]
            /\ output_queue' = IF output_queue = <<>> THEN <<>> ELSE Tail(output_queue)
    /\ lastOp' = Op("send_messages", c, cur_page, 0, "", "", NoMsg)
    /\ UNCHANGED <<initialized, cur_page, button_state, image_cache, edits, server,
                   stop_event, disconnect_timer, listen, sent, frames, coord, deck, timers>>

\* _listen_to_socket: recv returns a frame that decodes; the reply, if any, is
\* sent and the loop condition is evaluated again.  A frame with an event for
\* "SD" is handled through deck_api with _deck_id, so it is followed once
\* init() has chosen the deck; the other frames use neither.
RecvMessage(c, data, fetch) ==
    /\ listen[c] = "recv"
    /\ ~LoopBusy
    /\ initialized \/ data.target # "SD" \/ data.type = "init"
    /\ fetch = "ok" \/ (data.target = "SD" /\ data.type # "init" /\ data.event = "setImage")
    /\ frames < MaxFrames
    /\ frames' = frames + 1
    /\ LET r == analyze_md_message(button_state, image_cache, data, fetch)
       IN  /\ button_state' = r.bs
           /\ image_cache' = r.cache
           /\ IF r.raised
              THEN /\ listen' = [listen EXCEPT ![c] = "raised"]
                   /\ handler' = [handler EXCEPT ![c] = HandlerAfter(c, "raised", sender[c])]
                   /\ UNCHANGED sent
              ELSE /\ sent' = [sent EXCEPT ![c] = @ \o r.reply]
                   /\ listen' = [listen EXCEPT ![c] = ListenLoop]
                   /\ handler' = [handler EXCEPT ![c] =
                                     HandlerAfter(c, ListenLoop, sender[c])]
    /\ lastOp' = Op("recv", c, cur_page, 0, fetch, "", data)
    /\ UNCHANGED <<initialized, cur_page, output_queue, edits, server, stop_event,
                   disconnect_timer, sender, coord, deck, timers>>

\* _listen_to_socket: recv returns a frame json.loads rejects
RecvMalformed(c) ==
    /\ listen[c] = "recv"
    /\ ~LoopBusy
    /\ listen' = [listen EXCEPT ![c] = "raised"]
    /\ handler' = [handler EXCEPT ![c] = HandlerAfter(c, "raised", sender[c])]
    /\ lastOp' = Op("recv_malformed", c, cur_page, 0, "", "", NoMsg)
    /\ UNCHANGED <<bridge_vars, server, stop_event, disconnect_timer, sender, sent,
                   frames, coord, deck, timers>>

\* A faulty variant: a timeout sends the heartbeat twice.
C17_recv_timeout_two_heartbeats(c) ==
    /\ listen[c] = "recv"
    /\ ~LoopBusy
    /\ frames < MaxFrames
    /\ frames' = frames + 1
    /\ sent' = [sent EXCEPT ![c] = @ \o <<HEARTBEAT, HEARTBEAT>>]
    /\ listen' = [listen EXCEPT ![c] = ListenLoop]
    /\ handler' = [handler EXCEPT ![c] = HandlerAfter(c, ListenLoop, sender[c])]
    /\ lastOp' = Op("timeout", c, cur_page, 0, "", "", NoMsg)
    /\ UNCHANGED <<bridge_vars, server, stop_event, disconnect_timer, sender, coord, deck,
                   timers>>

\* _listen_to_socket: wait_for times out after 2 s; the heartbeat is sent and
\* the loop continues.  The output queue is not read.
RecvTimeout(c) ==
    /\ listen[c] = "recv"
    /\ ~LoopBusy
    /\ frames < MaxFrames
    /\ frames' = frames + 1
    /\ sent' = [sent EXCEPT ![c] = Append(@, HEARTBEAT)]
    /\ listen' = [listen EXCEPT ![c] = ListenLoop]
    /\ handler' = [handler EXCEPT ![c] = HandlerAfter(c, ListenLoop, sender[c])]
    /\ lastOp' = Op("timeout", c, cur_page, 0, "", "", NoMsg)
    /\ UNCHANGED <<bridge_vars, server, stop_event, disconnect_timer, sender, coord, deck, timers>>

\* The socket closes: recv (or send) raises ConnectionClosed in
\* _listen_to_socket.  If _listener still waits in gather it catches the
\* exception and restarts the timer.
ConnectionClosed(c) ==
    /\ listen[c] = "recv"
    /\ ~LoopBusy
    /\ listen' = [listen EXCEPT ![c] = "closed"]
    /\ handler' = [handler EXCEPT ![c] = HandlerAfter(c, "closed", sender[c])]
    /\ disconnect_timer' = TimerAfter(c, "closed")
    /\ timers' = TimersAfter(c, "closed")
    /\ lastOp' = Op("connection_closed", c, cur_page, 0, "", handler[c], NoMsg)
    /\ UNCHANGED <<bridge_vars, server, stop_event, sender, sent, frames, coord, deck>>

\* A faulty variant: the timer keeps running after it has fired, and fires
\* again.
C18_timer_fires_again ==
    /\ disconnect_timer = "alive"
    /\ timers' = [timers EXCEPT !.fired = @ + 1]
    /\ button_state' = IF initialized THEN disconnect(button_state) ELSE button_state
    /\ lastOp' = Op("timer", 0, cur_page, 0, "", "", NoMsg)
    /\ UNCHANGED <<initialized, cur_page, output_queue, image_cache, edits, server,
                   stop_event, disconnect_timer, handler, listen, sender, sent, frames,
                   coord, deck>>

\* the threading.Timer fires: bridge.disconnect() runs in the timer's thread
TimerExpire ==
    /\ disconnect_timer = "alive"
    /\ disconnect_timer' = "dead"
    /\ timers' = [timers EXCEPT !.pending = @ - 1, !.fired = @ + 1]
    /\ button_state' = IF initialized THEN disconnect(button_state) ELSE button_state
    /\ lastOp' = Op("timer", 0, cur_page, 0, "", "", NoMsg)
    /\ UNCHANGED <<initialized, cur_page, output_queue, image_cache, edits, server,
                   stop_event, handler, listen, sender, sent, frames, coord, deck>>

\* deck_listener.stop()
DeckStop(d) == [d EXCEPT !.stop = TRUE]

\* signal_handler: md_listener.stop(), then deck_listener.stop().  Before
\* start() has assigned _server the first line of md_listener.stop() raises
\* NameError; with no deck chosen bridge.disconnect() raises KeyError and the
\* stop event is not set.  An exception of md_listener.stop() leaves the
\* handler, so deck_listener.stop() is not called.
Stop ==
    /\ lastOp' = Op("stop", 0, cur_page, 0, "", "", NoMsg)
    /\ IF server = "unset"
       THEN UNCHANGED <<server, disconnect_timer, timers, button_state, stop_event, deck>>
       ELSE /\ server' = IF server = "serving" THEN "closing" ELSE server
            /\ disconnect_timer' = CancelTimer(disconnect_timer)
            /\ timers' = TimersAfterCancel(disconnect_timer, timers)
            /\ IF initialized
               THEN /\ button_state' = disconnect(button_state)
                    /\ stop_event' = TRUE
                    /\ deck' = DeckStop(deck)
               ELSE UNCHANGED <<button_state, stop_event, deck>>
    /\ UNCHANGED <<initialized, cur_page, output_queue, image_cache, edits, handler,
                   listen, sender, sent, frames, coord>>

(* ------------------------- the device listener ------------------------- *)

\* What is read from the pipe is a sequence of characters; these are the ones
\* str.strip() removes.
Whitespace == {" ", "\n"}

RECURSIVE lstrip(_)
lstrip(s) == IF s # <<>> /\ Head(s) \in Whitespace THEN lstrip(Tail(s)) ELSE s

RECURSIVE rstrip(_)
rstrip(s) ==
    IF s # <<>> /\ s[Len(s)] \in Whitespace THEN rstrip(SubSeq(s, 1, Len(s) - 1)) ELSE s

\* buf.decode('utf-8').strip()
strip(s) == rstrip(lstrip(s))

\* _parse_piped_line(line)
_parse_piped_line(line) == line

\* What os.read(fifo, BUFFER_SIZE) returns: nothing (b'' with no writer, and
\* EWOULDBLOCK, which the loop treats alike), blanks, one line with and without
\* blanks around it, two lines written before the read.
PipeReads ==
    {<<>>,
     <<" ", "\n">>,
     <<"a", "\n">>,
     <<" ", "a", " ", "\n">>,
     <<"a", "\n", "b", "\n">>}

\* start() up to the loop: _make_named_pipe and os.open
DeckStart ==
    /\ deck.pc = "idle"
    /\ deck' = [deck EXCEPT !.pc = "loop", !.pipe = TRUE, !.fifo = TRUE]
    /\ lastOp' = Op("deck_start", 0, cur_page, 0, "", "", NoMsg)
    /\ UNCHANGED <<bridge_vars, session_vars, coord, timers>>

\* One iteration of the loop of start(): the stop event is clear, os.read
\* returns buf, and a line that is not empty is put on the queue.  Queue.put
\* blocks while the queue is full: the iteration then stays in put.
DeckRead(buf) ==
    /\ deck.pc = "loop"
    /\ ~deck.stop
    /\ LET line        == strip(buf)
           parsed_line == _parse_piped_line(line)
       IN  IF buf = <<>> \/ parsed_line = <<>>
           THEN /\ deck' = [deck EXCEPT !.buf = buf]
                /\ UNCHANGED output_queue
           ELSE IF Len(output_queue) < MaxQueue
                THEN /\ output_queue' = Append(output_queue, parsed_line)
                     /\ deck' = [deck EXCEPT !.buf = buf]
                ELSE /\ deck' = [deck EXCEPT !.buf = buf, !.pc = "put", !.line = parsed_line]
                     /\ UNCHANGED output_queue
    /\ lastOp' = Op("deck_read", 0, cur_page, 0, "", "", NoMsg)
    /\ UNCHANGED <<initialized, cur_page, button_state, image_cache, edits, session_vars,
                   coord, timers>>

\* output_queue.put(parsed_line) returns once the queue has room
DeckPut ==
    /\ deck.pc = "put"
    /\ Len(output_queue) < MaxQueue
    /\ output_queue' = Append(output_queue, deck.line)
    /\ deck' = [deck EXCEPT !.pc = "loop", !.line = <<>>]
    /\ lastOp' = Op("deck_put", 0, cur_page, 0, "", "", NoMsg)
    /\ UNCHANGED <<initialized, cur_page, button_state, image_cache, edits, session_vars,
                   coord, timers>>

\* the loop test finds the stop event set: os.close(fifo), os.remove(pipe_path)
DeckExit ==
    /\ deck.pc = "loop"
    /\ deck.stop
    /\ deck' = [deck EXCEPT !.pc = "done", !.pipe = FALSE, !.fifo = FALSE]
    /\ lastOp' = Op("deck_exit", 0, cur_page, 0, "", "", NoMsg)
    /\ UNCHANGED <<bridge_vars, session_vars, coord, timers>>

\* the steps of the thread that runs deck_listener.start
DeckStep ==
    \/ DeckStart
    \/ \E buf \in PipeReads : DeckRead(buf)
    \/ DeckPut
    \/ DeckExit

NextSession ==
    \/ ServerStart
    \/ \E c \in Conns : Connect(c)
    \/ \E c \in Conns : ListenStart(c)
    \/ \E c \in Conns : SendStep(c)
    \/ \E c \in Conns, data \in SessionMessages : RecvMessage(c, data, "ok")
    \/ \E c \in Conns : RecvMalformed(c)
    \/ \E c \in Conns : RecvTimeout(c)
    \/ \E c \in Conns : ConnectionClosed(c)
    \/ TimerExpire
    \/ Stop

(* --------------------------- specifications ---------------------------- *)

\* The session manager serving the plugin, over a configuration saved earlier.
Next == BridgeInit \/ NextSession

Spec == Init /\ [][Next]_vars

\* One plugin session and every kind of frame the plugin can send on it.
NextMessages ==
    \/ BridgeInit
    \/ ServerStart
    \/ Connect(1)
    \/ ListenStart(1)
    \/ SendStep(1)
    \/ \E data \in InboundMessages, fetch \in FetchOutcomes : RecvMessage(1, data, fetch)
    \/ RecvTimeout(1)
    \/ Stop

SpecMessages == Init /\ [][NextMessages]_vars

\* The bridge as the configuration UI drives it, from an empty configuration.
InitBridge ==
    /\ InitCommon
    /\ button_state = [s \in Slots |-> BlankButton]
    /\ coord = NoCoord

SpecBridge == InitBridge /\ [][NextBridge]_vars

\* The coordinate functions applied to every button of pages 0..MaxCoordPage.
InitCoord ==
    /\ InitCommon
    /\ button_state = [s \in Slots |-> BlankButton]
    /\ coord \in {[button_index |-> i, page |-> p, context |-> <<>>, back |-> <<>>] :
                    i \in 0..(DECK_ROWS * DECK_COLUMNS - 1), p \in 0..MaxCoordPage}

\* context = _to_context(button_index, page)
ToContext ==
    /\ coord.context = <<>>
    /\ coord' = [coord EXCEPT !.context = <<_to_context(coord.button_index, coord.page)>>]
    /\ UNCHANGED <<bridge_vars, session_vars, lastOp, deck, timers>>

\* _to_page(context) and _to_button_index(context, page)
FromContext ==
    /\ coord.context # <<>>
    /\ coord.back = <<>>
    /\ coord' = [coord EXCEPT !.back =
                    <<[page |-> _to_page(coord.context[1]),
                       button_index |-> _to_button_index(coord.context[1], coord.page)]>>]
    /\ UNCHANGED <<bridge_vars, session_vars, lastOp, deck, timers>>

NextCoord == ToContext \/ FromContext

SpecCoord == InitCoord /\ [][NextCoord]_vars

\* The device listener next to bridge.init, the server and one plugin session,
\* as _setup_listeners starts them.  The listener's thread keeps running; the
\* plugin may never connect.
NextDeck ==
    \/ BridgeInit
    \/ ServerStart
    \/ Connect(1)
    \/ ListenStart(1)
    \/ SendStep(1)
    \/ Stop
    \/ DeckStart
    \/ \E buf \in PipeReads : DeckRead(buf)
    \/ DeckPut
    \/ DeckExit

SpecDeck == InitBridge /\ [][NextDeck]_vars /\ WF_vars(DeckStep)

\* The bridge as the configuration UI and the page buttons drive it, over a
\* configuration saved earlier.
SpecPages == Init /\ [][NextBridge]_vars

\* The outbound queue between the bridge and the session manager.  The asyncio
\* loop is the Qt event loop of the application (QEventLoop(app)), so the
\* callbacks of the UI, the handlers of the connections and _send_messages, the
\* only caller of next_message, all run on one thread; bridge.init runs in an
\* executor thread.
NextQueue ==
    \/ BridgeInit
    \/ ServerStart
    \/ \E b \in Buttons, a \in MATERIAL_DECK_ACTIONS : ~LoopBlocked /\ MdActionChanged(b, a)
    \/ \E b \in Buttons : ~LoopBlocked /\ KeyUp(b)
    \/ \E p \in Pages : ~LoopBlocked /\ SetPage(p)
    \/ \E c \in Conns : ConnectBlocking(c)
    \/ \E c \in Conns : ListenStart(c)
    \/ \E c \in Conns : SendStep(c)

SpecQueue == Init /\ [][NextQueue]_vars

\* Plugin sessions that send image frames, with every outcome of a download.
NextImages ==
    \/ BridgeInit
    \/ ServerStart
    \/ \E c \in Conns : Connect(c)
    \/ \E c \in Conns : ListenStart(c)
    \/ \E c \in Conns : SendStep(c)
    \/ \E c \in Conns, data \in ImageMessages, fetch \in FetchOutcomes :
          RecvMessage(c, data, fetch)

SpecImages == Init /\ [][NextImages]_vars

(* ------------------------------- claims -------------------------------- *)

DefaultKeys == {"soundNr", "macroMode", "macroNumber"}

\* C1: while a connection stays open and no stop is requested, every message
\* put on the outbound queue is eventually sent on that connection.  Stated as
\* what a finite run can refute: a message never leaves the outbound queue
\* without being written, in the same step, to a connection.
C1_QueuedMessagesAreSent ==
    [][Len(output_queue') < Len(output_queue)
        => \E c \in Conns : sent'[c] = Append(sent[c], Head(output_queue))]_vars

\* C2: on every receive timeout, all messages in the outbound queue at that
\* moment are sent on the connection before the heartbeat of that timeout.
C2_TimeoutDrainsQueueBeforeHeartbeat ==
    [][\A c \in Conns :
        (lastOp'.op = "timeout" /\ lastOp'.conn = c /\ ConnOpen(c))
        => /\ sent'[c] = (sent[c] \o output_queue) \o <<HEARTBEAT>>
           /\ output_queue' = <<>>]_vars

\* C3: whenever a plugin connection ends (whichever way its handler ends) and
\* no stop has been requested, the disconnect grace-period timer is running.
C3_TimerStartedWheneverHandlerEnds ==
    [][\A c \in Conns :
        (Serving(c) /\ ~Serving(c)' /\ ~stop_event')
        => disconnect_timer' = "alive"]_vars

C5_BindingLifecycle ==
    [][\A b \in Buttons :
        (lastOp'.op = "md_action_changed" /\ lastOp'.button = b /\ initialized)
        => LET before == button_state[<<cur_page, b>>].material_deck
               after  == button_state'[<<cur_page, b>>].material_deck
           IN  /\ (lastOp'.arg = "soundboard" /\ ~before.present)
                  => /\ get_md_action(button_state', cur_page, b) = "soundboard"
                     /\ after.present /\ after.has_settings
                     /\ "soundNr" \in DOMAIN after.action_settings
                     /\ after.action_settings.soundNr = (b + 1) + cur_page * DECK_COLUMNS * DECK_ROWS
               /\ (lastOp'.arg = ""
                     /\ get_md_action(button_state, cur_page, b) = "soundboard")
                  => /\ Len(output_queue') = Len(output_queue) + 1
                     /\ SubSeq(output_queue', 1, Len(output_queue)) = output_queue
                     /\ output_queue'[Len(output_queue')].event = "willDisappear"
                     /\ output_queue'[Len(output_queue')].action = "soundboard"
                     /\ ~after.present
                     /\ get_md_action(button_state', cur_page, b) = ""]_vars

\* a soundboard binding has just been cleared: the willDisappear is the last
\* message queued and the slot has no binding
C5_Witness ==
    /\ initialized
    /\ lastOp.op = "md_action_changed"
    /\ lastOp.arg = ""
    /\ lastOp.pre = "soundboard"
    /\ ~button_state[<<lastOp.page, lastOp.button>>].material_deck.present
    /\ output_queue # <<>>
    /\ output_queue[Len(output_queue)].event = "willDisappear"
    /\ output_queue[Len(output_queue)].action = "soundboard"
    /\ \E i \in 1..Len(output_queue) :
          /\ output_queue[i].event = "willAppear"
          /\ output_queue[i].action = "soundboard"
          /\ output_queue[i].context = output_queue[Len(output_queue)].context
          /\ output_queue[i].payload.settings.soundNr
                = (lastOp.button + 1) + lastOp.page * DECK_COLUMNS * DECK_ROWS

\* C6: on an initialised bridge, binding a slot without binding to "macro"
\* enqueues exactly one message: a willAppear with context b + p * columns *
\* rows, coordinates {column: b mod columns, row: b div columns} and settings
\* macroMode "macroBoard", macroNumber (b + 1) + p * columns * rows, next to
\* the two display flags of init_data; for b = 3, p = 0: context 3,
\* coordinates {3, 0}, macroNumber 4.
C6_MacroBindingWillAppear ==
    [][\A b \in Buttons :
        (lastOp'.op = "md_action_changed" /\ lastOp'.button = b /\ initialized
            /\ lastOp'.arg = "macro"
            /\ ~button_state[<<cur_page, b>>].material_deck.present)
        => /\ Len(output_queue') = Len(output_queue) + 1
           /\ SubSeq(output_queue', 1, Len(output_queue)) = output_queue
           /\ LET m == output_queue'[Len(output_queue')]
              IN  /\ m.event = "willAppear"
                  /\ m.action = "macro"
                  /\ m.context = b + cur_page * DECK_COLUMNS * DECK_ROWS
                  /\ m.payload.coordinates.column = b % DECK_COLUMNS
                  /\ m.payload.coordinates.row = b \div DECK_COLUMNS
                  /\ DOMAIN m.payload.settings
                        = {"displayName", "displayIcon", "macroMode", "macroNumber"}
                  /\ m.payload.settings.macroMode = "macroBoard"
                  /\ m.payload.settings.macroNumber
                        = (b + 1) + cur_page * DECK_COLUMNS * DECK_ROWS
                  /\ (b = 3 /\ cur_page = 0)
                     => /\ m.context = 3
                        /\ m.payload.coordinates = [column |-> 3, row |-> 0]
                        /\ m.payload.settings.macroNumber = 4]_vars

\* button 3 of page 0, without binding, has just been bound to "macro"
C6_Witness ==
    /\ initialized
    /\ lastOp.op = "md_action_changed"
    /\ lastOp.arg = "macro"
    /\ lastOp.pre = "unbound"
    /\ lastOp.button = 3
    /\ lastOp.page = 0
    /\ output_queue # <<>>
    /\ output_queue[Len(output_queue)].event = "willAppear"
    /\ output_queue[Len(output_queue)].context = 3

\* C7: once md_data_changed(b, "{}") has set the settings of a slot bound to
\* soundboard or macro to the empty object, no payload construction brings
\* soundNr / macroMode / macroNumber back, neither into the stored settings
\* nor into the settings emitted.  The first payload built after the settings
\* are stored is the willAppear of md_data_changed itself.
C7_ExplicitEmptySettingsStay ==
    (/\ initialized
     /\ lastOp.op = "md_data_changed"
     /\ lastOp.arg = "{}"
     /\ lastOp.pre \in {"soundboard", "macro"})
    => /\ DOMAIN button_state[<<lastOp.page, lastOp.button>>].material_deck.action_settings
             \cap DefaultKeys = {}
       /\ output_queue # <<>>
             => DOMAIN output_queue[Len(output_queue)].payload.settings \cap DefaultKeys = {}

\* C8: a setTitle frame for context c whose title differs from the current
\* text sets the text of the slot (c div (rows * columns), c - page * rows *
\* columns) to the title and changes nothing else of any slot, enqueues
\* nothing and sends no frame.
C8_SetTitleFrame ==
    [][\A c \in Conns :
        LET data == lastOp'.msg
            page == data.context \div (DECK_ROWS * DECK_COLUMNS)
            slot == <<page, data.context - page * DECK_ROWS * DECK_COLUMNS>>
        IN  (/\ lastOp'.op = "recv" /\ lastOp'.conn = c
             /\ data.target = "SD" /\ data.type # "init" /\ data.event = "setTitle"
             /\ slot \in Slots
             /\ data.payload.title # button_state[slot].text)
            => /\ button_state'[slot] = [button_state[slot] EXCEPT !.text = data.payload.title]
               /\ \A s \in Slots \ {slot} : button_state'[s] = button_state[s]
               /\ output_queue' = output_queue
               /\ sent' = sent]_vars

\* a button of a later page has just been given the title "Cast"; the button
\* of the same index on the first page still has its own text
C8_Witness ==
    /\ lastOp.op = "recv"
    /\ lastOp.msg.target = "SD"
    /\ lastOp.msg.event = "setTitle"
    /\ \E s \in Slots :
          /\ s[1] > 0
          /\ lastOp.msg.context = s[2] + s[1] * DECK_COLUMNS * DECK_ROWS
          /\ button_state[s].text = "Cast"
          /\ button_state[<<0, s[2]>>].text = ""

\* C9: analyze_md_message answers in exactly two cases, with the connected
\* payload when target is "server" and with the version payload when target
\* is "SD" and type is "init", and changes no button then; every other frame
\* gets no answer, and a frame with an unknown event or target changes no
\* button.
C9_RepliesExactlyToHandshakes ==
    [][\A c \in Conns :
        (lastOp'.op = "recv" /\ lastOp'.conn = c)
        => LET data == lastOp'.msg
           IN  /\ data.target = "server"
                  => /\ sent'[c] = Append(sent[c], [target |-> "MD", type |-> "connected",
                                                   data |-> "SD"])
                     /\ button_state' = button_state
               /\ (data.target = "SD" /\ data.type = "init")
                  => /\ sent'[c] = Append(sent[c], [source |-> "SD", type |-> "version",
                                                   version |-> "1.4.2"])
                     /\ button_state' = button_state
               /\ (data.target # "server" /\ ~(data.target = "SD" /\ data.type = "init"))
                  => sent'[c] = sent[c]
               /\ (data.target \notin {"server", "SD"}
                     \/ data.event \notin {"setTitle", "setImage", "setBufferImage"})
                  => button_state' = button_state]_vars

\* a frame addressed to "SD" with type "init" that also names an event has just
\* been answered with the version payload
C9_Witness ==
    /\ lastOp.op = "recv"
    /\ lastOp.msg.target = "SD"
    /\ lastOp.msg.type = "init"
    /\ lastOp.msg.event = "setTitle"
    /\ sent[lastOp.conn] # <<>>
    /\ sent[lastOp.conn][Len(sent[lastOp.conn])] = INITIALIZE_PAYLOAD
    /\ \A s \in Slots : button_state[s].text = ""

\* C10: for every page p >= 0 and button index i in [0, rows * columns):
\* _to_button_index(_to_context(i, p), p) = i and _to_page(_to_context(i, p))
\* = p, and no other valid (page, index) pair has the same context.
C10_CoordinateRoundTrip ==
    (coord.back # <<>>)
    => /\ coord.back[1].button_index = coord.button_index
       /\ coord.back[1].page = coord.page
       /\ \A p \in 0..MaxCoordPage, i \in 0..(DECK_ROWS * DECK_COLUMNS - 1) :
             (i + p * DECK_ROWS * DECK_COLUMNS = coord.context[1])
             => (i = coord.button_index /\ p = coord.page)

\* the last button of the last page has been taken to its context and back
C10_Witness ==
    /\ coord.back # <<>>
    /\ coord.page = MaxCoordPage
    /\ coord.button_index = DECK_ROWS * DECK_COLUMNS - 1
    /\ coord.context[1] = (MaxCoordPage + 1) * DECK_ROWS * DECK_COLUMNS - 1

\* the frame received last is a setImage for a button the model follows
SetImageReceived ==
    /\ lastOp.op = "recv"
    /\ lastOp.msg.target = "SD"
    /\ lastOp.msg.type # "init"
    /\ lastOp.msg.event = "setImage"
    /\ SlotOf(lastOp.msg.context) \in Slots

\* C11: the download of an image id happens only while no cache file exists
\* for it: once the file exists no step rewrites it, a setImage for that id
\* does not depend on what a download would do (it cannot fail), and every
\* setImage that completes leaves the button with the one cache path of the id.
C11_ImageCacheWriteOnce ==
    [][/\ \A id \in ImageIds :
            image_cache[id] # "absent" => image_cache'[id] = image_cache[id]
       /\ \A c \in Conns :
            (SetImageReceived' /\ lastOp'.conn = c)
            => LET id   == lastOp'.msg.payload.id
                   slot == SlotOf(lastOp'.msg.context)
                   path == _get_path_from_image_id(id)
               IN  /\ image_cache[id] # "absent"
                      => /\ listen'[c] # "raised"
                         /\ button_state'[slot].icon = path
                   /\ listen'[c] # "raised"
                      => /\ button_state'[slot].icon = path
                         /\ image_cache'[id] # "absent"
                   /\ image_cache'[id] # image_cache[id]
                      => /\ image_cache[id] = "absent"
                         /\ button_state[slot].icon # path]_vars

\* a setImage whose download would have failed has been served from the file
\* an earlier setImage for another button had stored
C11_Witness ==
    /\ SetImageReceived
    /\ lastOp.arg = "urlopen_raises"
    /\ listen[lastOp.conn] = "recv"
    /\ image_cache[lastOp.msg.payload.id] = "complete"
    /\ \E s \in Slots :
          /\ s # SlotOf(lastOp.msg.context)
          /\ button_state[s].icon = _get_path_from_image_id(lastOp.msg.payload.id)
    /\ button_state[SlotOf(lastOp.msg.context)].icon
          = _get_path_from_image_id(lastOp.msg.payload.id)

\* C12: when the download for a setImage fails, the setImage is dropped: the
\* icon of the button is unchanged and the receive loop of the connection
\* keeps running.
C12_FailedFetchDropsSetImage ==
    [][\A c \in Conns :
        (/\ SetImageReceived' /\ lastOp'.conn = c
         /\ lastOp'.arg \in {"urlopen_raises", "read_raises"}
         /\ image_cache[lastOp'.msg.payload.id] = "absent"
         /\ button_state[SlotOf(lastOp'.msg.context)].icon
               # _get_path_from_image_id(lastOp'.msg.payload.id))
        => /\ \A s \in Slots : button_state'[s].icon = button_state[s].icon
           /\ listen'[c] = ListenLoop']_vars

\* C13: after a download has failed, also while the response was read after
\* the destination had been opened, no cache file exists for the image id.
C13_FailedFetchLeavesNoFile ==
    [][\A c \in Conns :
        (/\ SetImageReceived' /\ lastOp'.conn = c
         /\ lastOp'.arg \in {"urlopen_raises", "read_raises"}
         /\ image_cache[lastOp'.msg.payload.id] = "absent"
         /\ button_state[SlotOf(lastOp'.msg.context)].icon
               # _get_path_from_image_id(lastOp'.msg.payload.id))
        => image_cache'[lastOp'.msg.payload.id] = "absent"]_vars

RECURSIVE SplitOnNewline(_)
\* the lines of a buffer: what lies between its newlines
SplitOnNewline(s) ==
    IF s = <<>>
    THEN << <<>> >>
    ELSE LET rest == SplitOnNewline(Tail(s))
         IN  IF Head(s) = "\n"
             THEN << <<>> >> \o rest
             ELSE << <<Head(s)>> \o rest[1] >> \o Tail(rest)

\* the lines of a buffer, each trimmed, without the empty ones
NonEmptyTrimmedLines(buf) ==
    LET lines   == SplitOnNewline(buf)
        trimmed == [i \in 1..Len(lines) |-> strip(lines[i])]
        NonEmpty(l) == l # <<>>
    IN  SelectSeq(trimmed, NonEmpty)

\* C14: a read that returns several newline-separated lines enqueues each
\* non-empty trimmed line as a message of its own, in order; an empty or
\* whitespace-only read enqueues nothing.
C14_MultiLineReadIsSplit ==
    [][(/\ lastOp'.op = "deck_read"
        /\ deck'.buf # deck.buf \/ output_queue' # output_queue
        /\ Len(output_queue) + Len(NonEmptyTrimmedLines(deck'.buf)) <= MaxQueue)
       => output_queue' = output_queue \o NonEmptyTrimmedLines(deck'.buf)]_vars

\* C15: once deck_listener.stop() has been called, start() eventually leaves
\* its loop, closes the handle and removes the pipe, also when the queue is
\* full and nothing takes messages from it.
C15_StopEndsDeckListener ==
    deck.stop ~> (deck.pc = "done" /\ ~deck.fifo /\ ~deck.pipe)

\* C16: a stop signal, whenever it is delivered (also before the websocket
\* server has started or before bridge.init has completed), sets both stop
\* events, and once stop has been requested no grace-period timer is pending.
C16_StopSignalSetsBothFlags ==
    [][/\ lastOp'.op = "stop" => (stop_event' /\ deck'.stop)
       /\ stop_event' => timers'.pending = 0]_vars

\* the heartbeats among the frames sent on a connection
Heartbeats(q) ==
    LET IsHeartbeat(m) == m = HEARTBEAT
    IN  Len(SelectSeq(q, IsHeartbeat))

\* C17: every receive timeout of an open session sends exactly one heartbeat
\* on that connection, and nothing else, before the next receive attempt, and
\* a heartbeat is sent only by a timeout.
C17_HeartbeatCadence ==
    [][\A c \in Conns :
        /\ (lastOp'.op = "timeout" /\ lastOp'.conn = c)
           => /\ sent'[c] = Append(sent[c], HEARTBEAT)
              /\ \A d \in Conns \ {c} : sent'[d] = sent[d]
              /\ listen'[c] = ListenLoop
              /\ output_queue' = output_queue
        /\ Heartbeats(sent'[c]) # Heartbeats(sent[c])
           => /\ lastOp'.op = "timeout" /\ lastOp'.conn = c
              /\ Heartbeats(sent'[c]) = Heartbeats(sent[c]) + 1]_vars

\* with nothing received and nothing queued, two timeouts have sent two
\* heartbeats and nothing else
C17_Witness ==
    /\ lastOp.op = "timeout"
    /\ output_queue = <<>>
    /\ sent[lastOp.conn] = <<HEARTBEAT, HEARTBEAT>>
    /\ listen[lastOp.conn] = "recv"

DisconnectStep ==
    \/ lastOp'.op = "timer" /\ disconnect_timer = "alive" /\ initialized
    \/ lastOp'.op = "stop" /\ server # "unset" /\ initialized

\* C19 as stated: disconnect() keeps the presence, action and action settings
\* of every binding, does not touch buttons without binding, and of a bound
\* button resets only what is displayed (to the placeholder image), so its
\* command stays.
C19_DisconnectResetsOnlyDisplay ==
    [][DisconnectStep
       => \A s \in Slots :
            /\ button_state'[s].material_deck = button_state[s].material_deck
            /\ ~button_state[s].material_deck.present => button_state'[s] = button_state[s]
            /\ button_state[s].material_deck.present
               => /\ button_state'[s].icon = MATERIAL_FOUNDRY_IMAGE
                  /\ button_state'[s].command = button_state[s].command]_vars

\* C19: disconnect() keeps the presence, action and action settings of every
\* binding, does not touch buttons without binding, and of a bound button sets
\* the icon to the placeholder image, the text to '' and the command to ''.
C19_DisconnectKeepsBindings ==
    [][DisconnectStep
       => \A s \in Slots :
            /\ button_state'[s].material_deck = button_state[s].material_deck
            /\ ~button_state[s].material_deck.present => button_state'[s] = button_state[s]
            /\ button_state[s].material_deck.present
               => /\ button_state'[s].icon = MATERIAL_FOUNDRY_IMAGE
                  /\ button_state'[s].text = ""
                  /\ button_state'[s].command = <<>>]_vars

\* the timer has run disconnect(): the bound buttons show the placeholder and
\* have no command, their bindings are there, and there is a button without
\* binding
C19_Witness ==
    /\ lastOp.op = "timer"
    /\ initialized
    /\ \E s \in Slots :
          /\ button_state[s].material_deck.present
          /\ button_state[s].material_deck.action = "macro"
          /\ "macroNumber" \in DOMAIN button_state[s].material_deck.action_settings
          /\ button_state[s].icon = MATERIAL_FOUNDRY_IMAGE
          /\ button_state[s].command = <<>>
    /\ \E s \in Slots :
          /\ ~button_state[s].material_deck.present
          /\ button_state[s].icon = ""

\* C20: a button has a binding record only if md_action_changed has given it
\* a non-empty action that was not cleared since: every record there is
\* carries init data with a non-empty action.
C20_RecordOnlyForBoundButtons ==
    \A s \in Slots :
        button_state[s].material_deck.present
        => /\ button_state[s].material_deck.has_init
           /\ button_state[s].material_deck.action # ""

\* the buttons of a page that are bound: 'material_deck' with 'init_data'
BoundButtons(bs, page) ==
    {b \in Buttons : bs[<<page, b>>].material_deck.present
                        /\ bs[<<page, b>>].material_deck.has_init}

\* C21: on an initialised bridge a page change from the page shown to another
\* appends to the outbound queue one willDisappear for every bound button of
\* the old page and then one willAppear for every bound button of the new
\* page, every willDisappear ahead of every willAppear, and nothing else; no
\* binding of any page changes.
C21_PageChangeMessages ==
    [][(lastOp'.op = "set_page" /\ initialized)
       => LET old   == cur_page
              new   == cur_page'
              n     == Len(output_queue)
              added == SubSeq(output_queue', n + 1, Len(output_queue'))
              k     == Cardinality(BoundButtons(button_state, old))
          IN  /\ Len(output_queue') >= n
              /\ SubSeq(output_queue', 1, n) = output_queue
              /\ Len(added) = k + Cardinality(BoundButtons(button_state, new))
              /\ \A i \in 1..Len(added) :
                    added[i].event = IF i <= k THEN "willDisappear" ELSE "willAppear"
              /\ \A b \in BoundButtons(button_state, old) :
                    Cardinality({i \in 1..k : added[i].context = _to_context(b, old)}) = 1
              /\ \A b \in BoundButtons(button_state, new) :
                    Cardinality({i \in (k + 1)..Len(added) :
                                    added[i].context = _to_context(b, new)}) = 1
              /\ \A s \in Slots :
                    button_state'[s].material_deck = button_state[s].material_deck]_vars

\* the change from the first page, with two bound buttons, to the last page,
\* with one: two willDisappear and then the willAppear are queued
C21_Witness ==
    /\ initialized
    /\ lastOp.op = "set_page"
    /\ cur_page = MaxPage
    /\ Len(output_queue) = 3
    /\ output_queue[1].event = "willDisappear" /\ output_queue[1].context = 3
    /\ output_queue[2].event = "willDisappear" /\ output_queue[2].context = 31
    /\ output_queue[3].event = "willAppear"
    /\ output_queue[3].context = _to_context(3, MaxPage)
    /\ BoundButtons(button_state, 0) = {3, 31}

\* the frame received last is a setBufferImage for a button the model follows
SetBufferImageReceived ==
    /\ lastOp.op = "recv"
    /\ lastOp.msg.target = "SD"
    /\ lastOp.msg.type # "init"
    /\ lastOp.msg.event = "setBufferImage"
    /\ SlotOf(lastOp.msg.context) \in Slots

\* C22: a setBufferImage never creates or changes a cache file; it sets the
\* icon of the button its context resolves to to the cache path of the id
\* exactly when a cache file for the id exists and the icon differs, and changes
\* nothing of any button otherwise; it sends no reply and the receive loop of
\* the connection goes on.
C22_SetBufferImageFrame ==
    [][SetBufferImageReceived'
       => LET c    == lastOp'.conn
              id   == lastOp'.msg.payload.id
              s    == SlotOf(lastOp'.msg.context)
              path == _get_path_from_image_id(id)
          IN  /\ image_cache' = image_cache
              /\ sent'[c] = sent[c]
              /\ output_queue' = output_queue
              /\ listen'[c] = ListenLoop'
              /\ IF image_cache[id] # "absent" /\ button_state[s].icon # path
                 THEN button_state' = [button_state EXCEPT ![s].icon = path]
                 ELSE button_state' = button_state]_vars

\* a setImage has stored the file and set another button; the setBufferImage
\* that follows sets the icon of its own button from the file
C22_Witness ==
    /\ SetBufferImageReceived
    /\ frames = 2
    /\ image_cache[lastOp.msg.payload.id] = "complete"
    /\ button_state[SlotOf(lastOp.msg.context)].icon
          = _get_path_from_image_id(lastOp.msg.payload.id)
    /\ \E s \in Slots :
          /\ s # SlotOf(lastOp.msg.context)
          /\ button_state[s].icon = _get_path_from_image_id(lastOp.msg.payload.id)

\* C23: the event-loop thread, the only one that takes messages from the
\* outbound queue, is never waiting inside a put of the bridge on a full queue.
C23_LoopNeverBlockedInPut ==
    ~(LoopBlocked /\ Len(output_queue) = MaxQueue)

====
